---- MODULE Spec2Model ----
\* Token authentication layer of srest-api: token issuance (access.go),
\* JWTAuthMiddleware, and the user handlers Register, Auth, Profile and
\* UpdateUser in their two coexisting versions (handlers/user/user.go, which
\* returns an {access, refresh} pair, and the older file, which returns a
\* single token).
EXTENDS Integers, Sequences, FiniteSets, TLC

----------------------------------------------------------------------------
\* Bounds of the model

\* number of NewAccessToken calls recorded in one behaviour
MaxIssued == 2

\* number of requests served in one behaviour
MaxServed == 3

\* Program constants
Hour == 3600
StatusOK == 200
StatusUnauthorized == 401

\* time.Now().Unix() is observed at these instants (seconds): issuance,
\* 1h59m, 2h, 2h+1s after time 0
Instants == {0, 2 * Hour - 60, 2 * Hour, 2 * Hour + 1}

\* the requests the server can have in flight at once, and the one slot in
\* use when requests are served one after the other
Slots == {"r1", "r2"}

Serial == {"r1"}

Nil == "<nil>"

----------------------------------------------------------------------------
\* access.go: the signing key, claims and tokens

jwtKey == "YouAreKissedSabbatsAss"

\* a key the server does not use
OtherKey == "NotTheServerKey"

\* Claims with the login written under the registered claim name "sub"
ClaimsLoginAsSub(id, login, admin, exp) ==
    [id |-> id, sub |-> login, isadmin |-> admin, exp |-> exp]

\* type Claims: the JSON object of an access token, keyed by the json tags
Claims(id, login, admin, exp) ==
    [id |-> id, login |-> login, isadmin |-> admin, exp |-> exp]

\* the JSON object {} of jwt.New (MapClaims with no entries)
EmptyClaims == [k \in {} |-> 0]

\* jwt.SigningMethodHS256 over "header.payload" under a key: HMAC is modelled
\* as a perfect MAC, equal only for equal algorithm, key and message
HS256(key, header, payload) ==
    [seg |-> "sig", alg |-> "HS256", key |-> key, msg |-> <<header, payload>>]

JWTHeader(alg) == [seg |-> "header", alg |-> alg, typ |-> "JWT"]

\* token.SignedString(key): the three segments header.payload.signature
SignedString(key, payload) ==
    << JWTHeader("HS256"),
       [seg |-> "claims", json |-> payload],
       HS256(key, JWTHeader("HS256"), payload) >>

\* NewAccessToken with 2 * time.Minute in place of 2 * time.Hour
NewAccessTokenMinutes(id, login, admin, t) ==
    SignedString(jwtKey, Claims(id, login, admin, t + 2 * 60))

\* NewAccessToken(id, login, admin) called at time t
NewAccessToken(id, login, admin, t) ==
    SignedString(jwtKey, Claims(id, login, admin, t + 2 * Hour))

\* NewRefreshToken() when SignedString succeeds
NewRefreshToken == SignedString(jwtKey, EmptyClaims)

\* NewRefreshToken made with claims that hold an expiry, one day after time 0
NewRefreshTokenExpiring(signErr) ==
    IF signErr = "refresh" THEN <<>> ELSE SignedString(jwtKey, [exp |-> 24 * Hour])

\* NewRefreshToken(): "" when SignedString returns an error
NewRefreshTokenResult(signErr) == IF signErr = "refresh" THEN <<>> ELSE NewRefreshToken

\* strings.TrimPrefix(tokenString, "Bearer ")
BearerPrefix == [seg |-> "lit", text |-> "Bearer "]

\* TrimPrefix giving "" for a string that does not start with the prefix
TrimPrefixRequired(s, prefix) ==
    IF Len(s) > 0 /\ s[1] = prefix THEN Tail(s) ELSE <<>>

TrimPrefix(s, prefix) ==
    IF Len(s) > 0 /\ s[1] = prefix THEN Tail(s) ELSE s

\* json.Unmarshal of the payload into &Claims{}: absent keys leave the zero
\* value of the field
JSONField(obj, k, zero) == IF k \in DOMAIN obj THEN obj[k] ELSE zero

\* DecodeClaims with the tag "admin" on IsAdmin, which the payload never has
DecodeClaimsWrongTag(obj) ==
    [Id        |-> JSONField(obj, "id", 0),
     Login     |-> JSONField(obj, "login", ""),
     IsAdmin   |-> JSONField(obj, "admin", FALSE),
     ExpiresAt |-> JSONField(obj, "exp", 0)]

DecodeClaims(obj) ==
    [Id        |-> JSONField(obj, "id", 0),
     Login     |-> JSONField(obj, "login", ""),
     IsAdmin   |-> JSONField(obj, "isadmin", FALSE),
     ExpiresAt |-> JSONField(obj, "exp", 0)]

ZeroClaims == [Id |-> 0, Login |-> "", IsAdmin |-> FALSE, ExpiresAt |-> 0]

\* jwt.StandardClaims.Valid at time t: exp = 0 means no expiry is set;
\* otherwise the token is valid while t <= exp
ClaimsValid(c, t) == c.ExpiresAt = 0 \/ t <= c.ExpiresAt

\* ParseWithClaims without the signature check (as Parser.ParseUnverified
\* followed by claims validation)
ParseWithClaimsUnverified(s, key, t) ==
    IF Len(s) # 3
      THEN [err |-> "token contains an invalid number of segments",
            valid |-> FALSE, claims |-> ZeroClaims]
    ELSE IF s[1].seg # "header" \/ s[2].seg # "claims" \/ s[3].seg # "sig"
      THEN [err |-> "token is malformed", valid |-> FALSE, claims |-> ZeroClaims]
    ELSE LET c == DecodeClaims(s[2].json) IN
      IF ~ClaimsValid(c, t)
        THEN [err |-> "token is expired", valid |-> FALSE, claims |-> c]
        ELSE [err |-> Nil, valid |-> TRUE, claims |-> c]

\* jwt.ParseWithClaims(tokenString, claims, keyfunc) at time t, keyfunc
\* returning key: the string must split into three segments, the header must
\* name an HMAC method usable with a []byte key, the claims must be valid at t
\* and the signature must verify under the key
ParseWithClaims(s, key, t) ==
    IF Len(s) # 3
      THEN [err |-> "token contains an invalid number of segments",
            valid |-> FALSE, claims |-> ZeroClaims]
    ELSE IF s[1].seg # "header" \/ s[2].seg # "claims" \/ s[3].seg # "sig"
      THEN [err |-> "token is malformed", valid |-> FALSE, claims |-> ZeroClaims]
    ELSE LET c == DecodeClaims(s[2].json) IN
      IF s[1].alg # "HS256"
        THEN [err |-> "key is of invalid type", valid |-> FALSE, claims |-> c]
      ELSE IF ~ClaimsValid(c, t)
        THEN [err |-> "token is expired", valid |-> FALSE, claims |-> c]
      ELSE IF s[3] # HS256(key, s[1], s[2].json)
        THEN [err |-> "signature is invalid", valid |-> FALSE, claims |-> c]
      ELSE [err |-> Nil, valid |-> TRUE, claims |-> c]

\* type UserContext, as built by the middleware (IsBlocked is left at its
\* zero value)
UserContext(c) ==
    [Id |-> c.Id, Login |-> c.Login, IsAdmin |-> c.IsAdmin, IsBlocked |-> FALSE]

----------------------------------------------------------------------------
\* The user store behind the UserHandler interface

ErrInternal == "pq: connection refused"
ErrExists == "database.postgres.Add: user already exists"
ErrNoUser == "database.postgres.Get: no such user"
ErrNoRows == "database.postgres.Auth: sql: no rows in result set"
ErrUpdate == "database.postgres.UpdateUser: no such user"

\* u.TableUser
TableUser(id, login, admin, username) ==
    [ID |-> id, Login |-> login, Admin |-> admin, Username |-> username]

ZeroUser == TableUser(0, "", FALSE, "")

Row(login, password, admin) ==
    [login |-> login, password |-> password, admin |-> admin,
     username |-> login, refresh |-> <<>>, blocked |-> FALSE]

InitDb == (1 :> Row("alice", "secret", FALSE)) @@ (2 :> Row("root", "secret", TRUE))

UserOf(d, id) == TableUser(id, d[id].login, d[id].admin, d[id].username)

NextId(d) == Cardinality(DOMAIN d) + 1

\* Add(u): a new row under the next id, or "user already exists", or a failure
StoreAdd(d, b) ==
    (IF \E i \in DOMAIN d : d[i].login = b.login
       THEN {[id |-> 0, err |-> ErrExists, db |-> d]}
       ELSE {[id |-> NextId(d), err |-> Nil,
              db |-> d @@ (NextId(d) :> Row(b.login, b.password, FALSE))]})
    \cup {[id |-> 0, err |-> ErrInternal, db |-> d]}

\* Get(id)
StoreGet(d, id) ==
    (IF id \in DOMAIN d
       THEN {[user |-> UserOf(d, id), err |-> Nil]}
       ELSE {[user |-> ZeroUser, err |-> ErrNoUser]})
    \cup {[user |-> ZeroUser, err |-> ErrInternal]}

Matches(d, b) == {i \in DOMAIN d : d[i].login = b.login /\ d[i].password = b.password}

\* Auth(u) (user u.TableUser, err error): the zero user with no error when
\* the credentials match no row
StoreAuthPair(d, b) ==
    (IF Matches(d, b) # {}
       THEN {[user |-> UserOf(d, i), err |-> Nil] : i \in Matches(d, b)}
       ELSE {[user |-> ZeroUser, err |-> Nil]})
    \cup {[user |-> ZeroUser, err |-> ErrInternal]}

\* Auth(u) (succsess, isAdmin bool, id int, err error): success = false with
\* an error when the credentials match no row, success = true with an error
\* on a failure of the store
StoreAuthSingle(d, b) ==
    (IF Matches(d, b) # {}
       THEN {[ok |-> TRUE, isAdmin |-> d[i].admin, id |-> i, err |-> Nil] : i \in Matches(d, b)}
       ELSE {[ok |-> FALSE, isAdmin |-> FALSE, id |-> 0, err |-> ErrNoRows]})
    \cup {[ok |-> TRUE, isAdmin |-> FALSE, id |-> 0, err |-> ErrInternal]}

\* UpdateUser(u, id) (int64, error): rows affected
StoreUpdateUser(d, b, id) ==
    (IF id \in DOMAIN d
       THEN {[n |-> 1, err |-> Nil, db |-> [d EXCEPT ![id].username = b.username]]}
       ELSE {[n |-> 0, err |-> ErrUpdate, db |-> d]})
    \cup {[n |-> 0, err |-> ErrInternal, db |-> d],
          [n |-> -1, err |-> ErrInternal, db |-> d]}

\* SaveRefreshToken(token, id)
StoreSaveRefreshToken(d, tok, id) ==
    (IF id \in DOMAIN d
       THEN {[err |-> Nil, db |-> [d EXCEPT ![id].refresh = tok]]}
       ELSE {})
    \cup {[err |-> ErrInternal, db |-> d]}

Call(op, id, login) == [op |-> op, id |-> id, login |-> login]

----------------------------------------------------------------------------
\* Responses

\* resp.Response, resp.OK() and resp.Error(msg)
RespOK == [status |-> "OK"]

RespError(msg) == [status |-> "Error", error |-> msg]

\* render.JSON(w, r, v): a JSON body, status 200 unless one was set
RenderJSON(v) == [code |-> StatusOK, ctype |-> "application/json", body |-> v]

\* http.Error(w, msg, code): a plain-text body
HttpError(msg, code) == [code |-> code, ctype |-> "text/plain", body |-> [text |-> msg]]

\* InternalError(w, r, log, err)
InternalError(err) == RenderJSON(RespError("Internal Server Error"))

\* JsonDecodeError answering with http.StatusBadRequest
JsonDecodeErrorBadRequest ==
    [code |-> 400, ctype |-> "application/json",
     body |-> RespError("failed to decode request")]

\* JsonDecodeError(w, r, log, err) and its inlined form in user.go
JsonDecodeError == RenderJSON(RespError("failed to decode request"))

----------------------------------------------------------------------------
\* The handlers, as functions of the request, the store and the results the
\* store and the signer return

\* what one run of a handler does: the bodies it writes, the store calls it
\* makes, the store afterwards, the tokens it creates, the result of Auth,
\* the errors its calls returned
Result(w, c, d, m, a, e) ==
    [resp |-> w, calls |-> c, db |-> d, minted |-> m, authRet |-> a, errs |-> e]

Mint(kind, tok, id, login, admin, t) ==
    [kind |-> kind, tok |-> tok, id |-> id, login |-> login, admin |-> admin, at |-> t]

RefreshMint == Mint("refresh", NewRefreshToken, 0, "", FALSE, 0)

\* r.Context().Value(access.CxtKey("userContext")).(access.UserContext)
HasUserContext(r) == r.ctx # <<>>

\* TargetId taken from the id field of the request body
TargetIdFromBody(r) == r.body.id

\* the id Profile and UpdateUser hand to the store: userContext.Id
TargetId(r) == r.ctx[1].Id

\* RegisterPair signing the new user in: an access token beside the profile
RegisterPairSignsIn(r, d, add, get) ==
    LET cAdd == Call("Add", 0, r.body.login)
        cGet == Call("Get", add.id, "")
        accessToken == NewAccessToken(get.user.ID, get.user.Login, get.user.Admin, 0) IN
    IF ~r.body.ok THEN Result(<<JsonDecodeError>>, <<>>, d, {}, <<>>, {})
    ELSE IF add.err # Nil THEN
        IF add.err = ErrExists
          THEN Result(<<RenderJSON(RespError("user already exists"))>>,
                      <<cAdd>>, add.db, {}, <<>>, {add.err})
          ELSE Result(<<InternalError(add.err)>>, <<cAdd>>, add.db, {}, <<>>, {add.err})
    ELSE IF get.err # Nil
      THEN Result(<<InternalError(get.err)>>, <<cAdd, cGet>>, add.db, {}, <<>>, {get.err})
    ELSE Result(<<RenderJSON([status |-> "OK", user |-> get.user, token |-> accessToken])>>,
                <<cAdd, cGet>>, add.db,
                {Mint("access", accessToken, get.user.ID, get.user.Login, get.user.Admin, 0)},
                <<>>, {})

\* Register of user.go: the stored profile on success
RegisterPair(r, d, add, get) ==
    LET cAdd == Call("Add", 0, r.body.login)
        cGet == Call("Get", add.id, "") IN
    IF ~r.body.ok THEN Result(<<JsonDecodeError>>, <<>>, d, {}, <<>>, {})
    ELSE IF add.err # Nil THEN
        IF add.err = ErrExists
          THEN Result(<<RenderJSON(RespError("user already exists"))>>,
                      <<cAdd>>, add.db, {}, <<>>, {add.err})
          ELSE Result(<<InternalError(add.err)>>, <<cAdd>>, add.db, {}, <<>>, {add.err})
    ELSE IF get.err # Nil
      THEN Result(<<InternalError(get.err)>>, <<cAdd, cGet>>, add.db, {}, <<>>, {get.err})
    ELSE Result(<<RenderJSON([status |-> "OK", user |-> get.user])>>,
                <<cAdd, cGet>>, add.db, {}, <<>>, {})

\* Register of the single-token version: an echo of the auth data on success
RegisterSingle(r, d, add) ==
    LET cAdd == Call("Add", 0, r.body.login) IN
    IF ~r.body.ok THEN Result(<<JsonDecodeError>>, <<>>, d, {}, <<>>, {})
    ELSE IF add.err # Nil THEN
        IF add.err = ErrExists
          THEN Result(<<RenderJSON(RespError("user already exists"))>>,
                      <<cAdd>>, add.db, {}, <<>>, {add.err})
          ELSE Result(<<InternalError(add.err)>>, <<cAdd>>, add.db, {}, <<>>, {add.err})
    ELSE Result(<<RenderJSON([status |-> "OK",
                              authdata |-> [login |-> r.body.login,
                                            password |-> r.body.password]])>>,
                <<cAdd>>, add.db, {}, <<>>, {})

ErrAccess == "could not generate JWT accessToken"
ErrRefresh == "could not generate JWT refreshToken"
ErrSave == "could not save JWT refreshToken"
ErrToken == "could not generate JWT Token"

\* AuthPair without the user.ID == 0 check
AuthPairNoIdCheck(r, d, t, au, signErr, sv) ==
    LET cAuth == Call("Auth", 0, r.body.login)
        cSave == Call("SaveRefreshToken", au.user.ID, "")
        accessToken == NewAccessToken(au.user.ID, au.user.Login, au.user.Admin, t)
        mAccess == Mint("access", accessToken, au.user.ID, au.user.Login, au.user.Admin, t)
        refreshToken == NewRefreshTokenResult(signErr) IN
    IF ~r.body.ok THEN Result(<<JsonDecodeError>>, <<>>, d, {}, <<>>, {})
    ELSE IF au.err # Nil
      THEN Result(<<InternalError(au.err)>>, <<cAuth>>, d, {}, <<au>>, {au.err})
    ELSE IF signErr = "access"
      THEN Result(<<InternalError(ErrAccess)>>, <<cAuth>>, d, {}, <<au>>, {ErrAccess})
    ELSE IF refreshToken = <<>>
      THEN Result(<<InternalError(ErrRefresh)>>, <<cAuth>>, d, {mAccess}, <<au>>, {ErrRefresh})
    ELSE IF sv.err # Nil
      THEN Result(<<InternalError(ErrSave)>>, <<cAuth, cSave>>, sv.db,
                  {mAccess, RefreshMint}, <<au>>, {sv.err})
    ELSE Result(<<RenderJSON([status |-> "OK",
                              tokens |-> [access |-> accessToken,
                                          refresh |-> refreshToken]])>>,
                <<cAuth, cSave>>, sv.db, {mAccess, RefreshMint}, <<au>>, {})

\* AuthPair without the refreshToken == "" check
AuthPairNoEmptyCheck(r, d, t, au, signErr, sv) ==
    LET cAuth == Call("Auth", 0, r.body.login)
        cSave == Call("SaveRefreshToken", au.user.ID, "")
        accessToken == NewAccessToken(au.user.ID, au.user.Login, au.user.Admin, t)
        mAccess == Mint("access", accessToken, au.user.ID, au.user.Login, au.user.Admin, t)
        refreshToken == NewRefreshTokenResult(signErr)
        mRefresh == IF refreshToken = <<>> THEN {} ELSE {RefreshMint} IN
    IF ~r.body.ok THEN Result(<<JsonDecodeError>>, <<>>, d, {}, <<>>, {})
    ELSE IF au.err # Nil
      THEN Result(<<InternalError(au.err)>>, <<cAuth>>, d, {}, <<au>>, {au.err})
    ELSE IF au.user.ID = 0
      THEN Result(<<RenderJSON(RespError("wrong login or password"))>>,
                  <<cAuth>>, d, {}, <<au>>, {})
    ELSE IF signErr = "access"
      THEN Result(<<InternalError(ErrAccess)>>, <<cAuth>>, d, {}, <<au>>, {ErrAccess})
    ELSE IF sv.err # Nil
      THEN Result(<<InternalError(ErrSave)>>, <<cAuth, cSave>>, sv.db,
                  {mAccess} \cup mRefresh, <<au>>, {sv.err})
    ELSE Result(<<RenderJSON([status |-> "OK",
                              tokens |-> [access |-> accessToken,
                                          refresh |-> refreshToken]])>>,
                <<cAuth, cSave>>, sv.db, {mAccess} \cup mRefresh, <<au>>, {})

\* AuthPair answering with the tokens whatever SaveRefreshToken returned
AuthPairIgnoresSaveError(r, d, t, au, signErr, sv) ==
    LET cAuth == Call("Auth", 0, r.body.login)
        cSave == Call("SaveRefreshToken", au.user.ID, "")
        accessToken == NewAccessToken(au.user.ID, au.user.Login, au.user.Admin, t)
        mAccess == Mint("access", accessToken, au.user.ID, au.user.Login, au.user.Admin, t)
        refreshToken == NewRefreshTokenResult(signErr) IN
    IF ~r.body.ok THEN Result(<<JsonDecodeError>>, <<>>, d, {}, <<>>, {})
    ELSE IF au.err # Nil
      THEN Result(<<InternalError(au.err)>>, <<cAuth>>, d, {}, <<au>>, {au.err})
    ELSE IF au.user.ID = 0
      THEN Result(<<RenderJSON(RespError("wrong login or password"))>>,
                  <<cAuth>>, d, {}, <<au>>, {})
    ELSE IF signErr = "access"
      THEN Result(<<InternalError(ErrAccess)>>, <<cAuth>>, d, {}, <<au>>, {ErrAccess})
    ELSE IF refreshToken = <<>>
      THEN Result(<<InternalError(ErrRefresh)>>, <<cAuth>>, d, {mAccess}, <<au>>, {ErrRefresh})
    ELSE Result(<<RenderJSON([status |-> "OK",
                              tokens |-> [access |-> accessToken,
                                          refresh |-> refreshToken]])>>,
                <<cAuth, cSave>>, sv.db, {mAccess, RefreshMint}, <<au>>,
                IF sv.err # Nil THEN {sv.err} ELSE {})

\* Auth of user.go at time t: au is the result of User.Auth, signErr names
\* the SignedString call that fails ("none", "access", "refresh"), sv is the
\* result of User.SaveRefreshToken
AuthPair(r, d, t, au, signErr, sv) ==
    LET cAuth == Call("Auth", 0, r.body.login)
        cSave == Call("SaveRefreshToken", au.user.ID, "")
        accessToken == NewAccessToken(au.user.ID, au.user.Login, au.user.Admin, t)
        mAccess == Mint("access", accessToken, au.user.ID, au.user.Login, au.user.Admin, t)
        refreshToken == NewRefreshTokenResult(signErr) IN
    IF ~r.body.ok THEN Result(<<JsonDecodeError>>, <<>>, d, {}, <<>>, {})
    ELSE IF au.err # Nil
      THEN Result(<<InternalError(au.err)>>, <<cAuth>>, d, {}, <<au>>, {au.err})
    ELSE IF au.user.ID = 0
      THEN Result(<<RenderJSON(RespError("wrong login or password"))>>,
                  <<cAuth>>, d, {}, <<au>>, {})
    ELSE IF signErr = "access"
      THEN Result(<<InternalError(ErrAccess)>>, <<cAuth>>, d, {}, <<au>>, {ErrAccess})
    ELSE IF refreshToken = <<>>
      THEN Result(<<InternalError(ErrRefresh)>>, <<cAuth>>, d, {mAccess}, <<au>>, {ErrRefresh})
    ELSE IF sv.err # Nil
      THEN Result(<<InternalError(ErrSave)>>, <<cAuth, cSave>>, sv.db,
                  {mAccess, RefreshMint}, <<au>>, {sv.err})
    ELSE Result(<<RenderJSON([status |-> "OK",
                              tokens |-> [access |-> accessToken,
                                          refresh |-> refreshToken]])>>,
                <<cAuth, cSave>>, sv.db, {mAccess, RefreshMint}, <<au>>, {})

\* access.GenerateJWT(id, login, admin) of the single-token version
GenerateJWT(id, login, admin, t) == NewAccessToken(id, login, admin, t)

\* Auth of the single-token version
AuthSingle(r, d, t, au, signErr) ==
    LET cAuth == Call("Auth", 0, r.body.login)
        token == GenerateJWT(au.id, r.body.login, au.isAdmin, t)
        mAccess == Mint("access", token, au.id, r.body.login, au.isAdmin, t) IN
    IF ~r.body.ok THEN Result(<<JsonDecodeError>>, <<>>, d, {}, <<>>, {})
    ELSE IF au.err # Nil THEN
        IF ~au.ok
          THEN Result(<<RenderJSON(RespError("wrong login or password"))>>,
                      <<cAuth>>, d, {}, <<au>>, {au.err})
          ELSE Result(<<InternalError(au.err)>>, <<cAuth>>, d, {}, <<au>>, {au.err})
    ELSE IF signErr = "access"
      THEN Result(<<InternalError(ErrToken)>>, <<cAuth>>, d, {}, <<au>>, {ErrToken})
    ELSE Result(<<RenderJSON([status |-> "OK", token |-> token])>>,
                <<cAuth>>, d, {mAccess}, <<au>>, {})

\* Profile (the same in both versions)
Profile(r, d, get) ==
    LET cGet == Call("Get", TargetId(r), "") IN
    IF ~HasUserContext(r)
      THEN Result(<<HttpError("User context not found", StatusUnauthorized)>>,
                  <<>>, d, {}, <<>>, {})
    ELSE IF get.err # Nil THEN
        IF get.err = ErrNoUser
          THEN Result(<<RenderJSON(RespError("No such user"))>>, <<cGet>>, d, {}, <<>>, {get.err})
          ELSE Result(<<InternalError(get.err)>>, <<cGet>>, d, {}, <<>>, {get.err})
    ELSE Result(<<RenderJSON([status |-> "OK", user |-> get.user])>>, <<cGet>>, d, {}, <<>>, {})

\* the bodies UpdateUser writes when User.UpdateUser returns (n, err) with
\* err != nil: the n == 0 branch writes and does not return
UpdateUserFailure(n, err) ==
    (IF n = 0 THEN <<RenderJSON(RespError(err))>> ELSE <<>>) \o <<InternalError(err)>>

\* UpdateUser of user.go: the stored profile on success
UpdateUserPair(r, d, up, get) ==
    LET cUp == Call("UpdateUser", TargetId(r), "")
        cGet == Call("Get", TargetId(r), "") IN
    IF ~r.body.ok THEN Result(<<JsonDecodeError>>, <<>>, d, {}, <<>>, {})
    ELSE IF ~HasUserContext(r)
      THEN Result(<<HttpError("User context not found", StatusUnauthorized)>>,
                  <<>>, d, {}, <<>>, {})
    ELSE IF up.err # Nil
      THEN Result(UpdateUserFailure(up.n, up.err), <<cUp>>, up.db, {}, <<>>, {up.err})
    ELSE IF get.err # Nil
      THEN Result(<<InternalError(get.err)>>, <<cUp, cGet>>, up.db, {}, <<>>, {get.err})
    ELSE Result(<<RenderJSON([status |-> "OK", user |-> get.user])>>,
                <<cUp, cGet>>, up.db, {}, <<>>, {})

\* UpdateUser of the single-token version: a bare OK on success
UpdateUserSingle(r, d, up) ==
    LET cUp == Call("UpdateUser", TargetId(r), "") IN
    IF ~r.body.ok THEN Result(<<JsonDecodeError>>, <<>>, d, {}, <<>>, {})
    ELSE IF ~HasUserContext(r)
      THEN Result(<<HttpError("User context not found", StatusUnauthorized)>>,
                  <<>>, d, {}, <<>>, {})
    ELSE IF up.err # Nil
      THEN Result(UpdateUserFailure(up.n, up.err), <<cUp>>, up.db, {}, <<>>, {up.err})
    ELSE Result(<<RenderJSON(RespOK)>>, <<cUp>>, up.db, {}, <<>>, {})

----------------
\* Requests and what clients can send

NoBody == [ok |-> FALSE, login |-> "", password |-> "", username |-> "", id |-> 0]

Body(login, password, username, id) ==
    [ok |-> TRUE, login |-> login, password |-> password, username |-> username, id |-> id]

\* a body that does not decode, or {login, password, ...} of a sign-up
SignupBodies == {NoBody} \cup {Body(l, "secret", l, 0) : l \in {"alice", "bob"}}

SigninBodies ==
    {NoBody} \cup {Body(l, p, "", 0) : l \in {"alice", "root", "bob"}, p \in {"secret", "wrong"}}

\* a profile update; the client also sends an id field naming user 2
UpdateBodies == {NoBody, Body("", "", "neo", 2)}

Garbage == <<[seg |-> "lit", text |-> "garbage"]>>

\* tokens signed under another key: an admin's claims, without expiry and
\* with an expiry one hour after time 0
Forged == {SignedString(OtherKey, Claims(2, "root", TRUE, e)) : e \in {0, Hour}}

\* an issued token whose payload was changed to isadmin = true, the
\* signature left as issued
Tampered(m) ==
    {<<x.tok[1], [seg |-> "claims", json |-> [x.tok[2].json EXCEPT !.isadmin = TRUE]], x.tok[3]>> :
        x \in {y \in m : y.kind = "access" /\ ~y.admin}}

\* the values of the Authorization header: none, garbage, and every token a
\* client can hold, bare or after "Bearer "
Tokens(m) == {Garbage} \cup {x.tok : x \in m} \cup Forged \cup Tampered(m)

Headers(m) ==
    {<<>>} \cup Tokens(m) \cup {<<BearerPrefix>> \o tok : tok \in Tokens(m)}

Protected(route) == route \in {"profile", "update"}

Methods(route) ==
    CASE route = "profile" -> {"GET", "OPTIONS"}
      [] route = "update" -> {"PUT", "OPTIONS"}
      [] OTHER -> {"POST"}

Bodies(route) ==
    CASE route = "signup" -> SignupBodies
      [] route = "signin" -> SigninBodies
      [] route = "update" -> UpdateBodies
      [] OTHER -> {NoBody}

Idle ==
    [pc |-> "idle", route |-> "", method |-> "", auth |-> <<>>, body |-> NoBody,
     ctx |-> <<>>, resp |-> <<>>, nextCalls |-> 0, runs |-> 0, parsed |-> FALSE,
     mwAt |-> 0, blockedAtMw |-> {}, cancelled |-> FALSE, calls |-> <<>>,
     authRet |-> <<>>,
     minted |-> {}, errs |-> {}]

----------------------------------------------------------------------------
\* State

VARIABLES
    now,      \* time.Now().Unix()
    variant,  \* which version of the handlers is built: "pair" or "single"
    db,       \* the rows of the user store
    minted,   \* the tokens created so far, with the arguments they were created from
    req,      \* per slot: the request in flight, its context and its response
    served,   \* number of requests received
    codec     \* one run of the claims codec: claims, their token, its decoding

vars == <<now, variant, db, minted, req, served, codec>>

\* the codec at rest
CodecIdle == [pc |-> "idle", c |-> ZeroClaims, tok |-> <<>>, at |-> 0,
              out |-> [err |-> Nil, valid |-> FALSE, claims |-> ZeroClaims]]

Init ==
    /\ now = 0
    /\ variant \in {"pair", "single"}
    /\ db = InitDb
    /\ minted = {}
    /\ req = [s \in Slots |-> Idle]
    /\ served = 0
    /\ codec = CodecIdle

\* the clock moves to a later instant
Tick ==
    /\ \E t \in Instants : t > now /\ now' = t
    /\ UNCHANGED <<codec, variant, db, minted, req, served>>

\* a request arrives; the router hands the protected routes to the
\* middleware and the others to their handler
Receive(s) ==
    /\ req[s].pc = "idle"
    /\ served < MaxServed
    /\ \E route \in {"signup", "signin", "profile", "update"} :
       \E method \in Methods(route), body \in Bodies(route),
          auth \in (IF Protected(route) THEN Headers(minted) ELSE {<<>>}) :
            req' = [req EXCEPT ![s] =
                      [Idle EXCEPT !.pc = IF Protected(route) THEN "mw" ELSE "handler",
                                   !.route = route, !.method = method,
                                   !.auth = auth, !.body = body]]
    /\ served' = served + 1
    /\ UNCHANGED <<codec, now, variant, db, minted>>

\* MwOutcome answering an expired token with its own message
MwOutcomeExpiredMessage(r, t) ==
    IF r.method = "OPTIONS"
      THEN [resp |-> <<>>, ctx |-> r.ctx, next |-> TRUE, parsed |-> FALSE]
    ELSE LET tokenString == TrimPrefix(r.auth, BearerPrefix)
             p == ParseWithClaims(tokenString, jwtKey, t) IN
        IF p.err # Nil \/ ~p.valid
          THEN [resp |-> <<HttpError(IF p.err = "token is expired"
                                       THEN "Token expired" ELSE "Invalid token",
                                     StatusUnauthorized)>>,
                ctx |-> r.ctx, next |-> FALSE, parsed |-> TRUE]
          ELSE [resp |-> <<>>, ctx |-> <<UserContext(p.claims)>>,
                next |-> TRUE, parsed |-> TRUE]

\* MwOutcome looking the user up in the store and refusing a blocked one
MwOutcomeChecksBlock(r, t) ==
    IF r.method = "OPTIONS"
      THEN [resp |-> <<>>, ctx |-> r.ctx, next |-> TRUE, parsed |-> FALSE]
    ELSE LET tokenString == TrimPrefix(r.auth, BearerPrefix)
             p == ParseWithClaims(tokenString, jwtKey, t)
             blocked == p.claims.Id \in DOMAIN db /\ db[p.claims.Id].blocked IN
        IF p.err # Nil \/ ~p.valid \/ blocked
          THEN [resp |-> <<HttpError("Invalid token", StatusUnauthorized)>>,
                ctx |-> r.ctx, next |-> FALSE, parsed |-> TRUE]
          ELSE [resp |-> <<>>, ctx |-> <<UserContext(p.claims)>>,
                next |-> TRUE, parsed |-> TRUE]

\* MwOutcome accepting only the latest token created for a user: a later
\* sign-in revokes the earlier tokens
MwOutcomeLatestOnly(r, t) ==
    IF r.method = "OPTIONS"
      THEN [resp |-> <<>>, ctx |-> r.ctx, next |-> TRUE, parsed |-> FALSE]
    ELSE LET tokenString == TrimPrefix(r.auth, BearerPrefix)
             p == ParseWithClaims(tokenString, jwtKey, t)
             revoked == \E y \in minted :
                           /\ y.kind = "access"
                           /\ y.id = p.claims.Id
                           /\ y.at + 2 * Hour > p.claims.ExpiresAt IN
        IF p.err # Nil \/ ~p.valid \/ revoked
          THEN [resp |-> <<HttpError("Invalid token", StatusUnauthorized)>>,
                ctx |-> r.ctx, next |-> FALSE, parsed |-> TRUE]
          ELSE [resp |-> <<>>, ctx |-> <<UserContext(p.claims)>>,
                next |-> TRUE, parsed |-> TRUE]

\* what the middleware does with request r at time t: the bodies it writes,
\* the context it attaches, whether it calls next, whether it parsed a token
MwOutcome(r, t) ==
    IF r.method = "OPTIONS"
      THEN [resp |-> <<>>, ctx |-> r.ctx, next |-> TRUE, parsed |-> FALSE]
    ELSE LET tokenString == TrimPrefix(r.auth, BearerPrefix)
             p == ParseWithClaims(tokenString, jwtKey, t) IN
        IF p.err # Nil \/ ~p.valid
          THEN [resp |-> <<HttpError("Invalid token", StatusUnauthorized)>>,
                ctx |-> r.ctx, next |-> FALSE, parsed |-> TRUE]
          ELSE [resp |-> <<>>, ctx |-> <<UserContext(p.claims)>>,
                next |-> TRUE, parsed |-> TRUE]

\* JWTAuthMiddleware keeping the identity in a package variable: every
\* request in flight sees the identity decoded last
JWTAuthMiddlewareShared(s) ==
    /\ req[s].pc = "mw"
    /\ LET o == MwOutcome(req[s], now) IN
         req' = [u \in Slots |->
                   IF u = s
                     THEN [req[s] EXCEPT !.pc = IF o.next THEN "handler" ELSE "done",
                                         !.resp = @ \o o.resp,
                                         !.ctx = o.ctx,
                                         !.nextCalls = @ + (IF o.next THEN 1 ELSE 0),
                                         !.parsed = o.parsed,
                                         !.mwAt = now,
                                         !.blockedAtMw = {i \in DOMAIN db : db[i].blocked}]
                   ELSE IF req[u].pc = "handler" /\ o.ctx # <<>>
                     THEN [req[u] EXCEPT !.ctx = o.ctx]
                     ELSE req[u]]
    /\ UNCHANGED <<codec, now, variant, db, minted, served>>

JWTAuthMiddleware(s) ==
    /\ req[s].pc = "mw"
    /\ LET o == MwOutcome(req[s], now) IN
         req' = [req EXCEPT ![s].pc = IF o.next THEN "handler" ELSE "done",
                            ![s].resp = @ \o o.resp,
                            ![s].ctx = o.ctx,
                            ![s].nextCalls = @ + (IF o.next THEN 1 ELSE 0),
                            ![s].parsed = o.parsed,
                            ![s].mwAt = now,
                            ![s].blockedAtMw = {i \in DOMAIN db : db[i].blocked}]
    /\ UNCHANGED <<codec, now, variant, db, minted, served>>

AccessMints(m) == {x \in m : x.kind = "access"}

\* the handler of slot s ran with result res
Handled(s, res) ==
    /\ Cardinality(AccessMints(minted \cup res.minted)) <= MaxIssued
    /\ req' = [req EXCEPT ![s].pc = "done",
                          ![s].runs = @ + 1,
                          ![s].resp = @ \o res.resp,
                          ![s].calls = @ \o res.calls,
                          ![s].authRet = res.authRet,
                          ![s].minted = res.minted,
                          ![s].errs = res.errs]
    /\ db' = res.db
    /\ minted' = minted \cup res.minted
    /\ UNCHANGED <<codec, now, variant, served>>

Register(s) ==
    /\ req[s].pc = "handler" /\ req[s].route = "signup"
    /\ \E add \in StoreAdd(db, req[s].body) :
       \E get \in StoreGet(add.db, add.id) :
          Handled(s, IF variant = "pair" THEN RegisterPair(req[s], db, add, get)
                                         ELSE RegisterSingle(req[s], db, add))

Auth(s) ==
    /\ req[s].pc = "handler" /\ req[s].route = "signin"
    /\ \E signErr \in {"none", "access", "refresh"} :
         IF variant = "pair"
           THEN \E au \in StoreAuthPair(db, req[s].body) :
                \E sv \in StoreSaveRefreshToken(db, NewRefreshTokenResult(signErr),
                                                 au.user.ID) :
                   Handled(s, AuthPair(req[s], db, now, au, signErr, sv))
           ELSE \E au \in StoreAuthSingle(db, req[s].body) :
                   Handled(s, AuthSingle(req[s], db, now, au, signErr))

ProfileHandler(s) ==
    /\ req[s].pc = "handler" /\ req[s].route = "profile"
    /\ \E get \in StoreGet(db, IF HasUserContext(req[s]) THEN TargetId(req[s]) ELSE 0) :
          Handled(s, Profile(req[s], db, get))

UpdateUser(s) ==
    /\ req[s].pc = "handler" /\ req[s].route = "update"
    /\ \E up \in StoreUpdateUser(db, req[s].body,
                                 IF HasUserContext(req[s]) THEN TargetId(req[s]) ELSE 0) :
       \E get \in StoreGet(up.db, IF HasUserContext(req[s]) THEN TargetId(req[s]) ELSE 0) :
          Handled(s, IF variant = "pair" THEN UpdateUserPair(req[s], db, up, get)
                                         ELSE UpdateUserSingle(req[s], db, up))

\* the server cancels the context of a request in flight (the client went
\* away or a deadline passed); neither the middleware nor a handler reads
\* r.Context().Done() or r.Context().Err(), and the store calls take no context
Cancel(s) ==
    /\ req[s].pc \in {"mw", "handler"}
    /\ ~req[s].cancelled
    /\ req' = [req EXCEPT ![s].cancelled = TRUE]
    /\ UNCHANGED <<codec, now, variant, db, minted, served>>

\* an administrator blocks user i (the admin route sets the flag in the store)
BlockUser(i) ==
    /\ i \in DOMAIN db
    /\ ~db[i].blocked
    /\ served < MaxServed
    /\ db' = [db EXCEPT ![i].blocked = TRUE]
    /\ served' = served + 1
    /\ UNCHANGED <<codec, now, variant, minted, req>>

\* the server is done with the request: its context and response are dropped
Finish(s) ==
    /\ req[s].pc = "done"
    /\ req' = [req EXCEPT ![s] = Idle]
    /\ UNCHANGED <<codec, now, variant, db, minted, served>>

Next ==
    \/ Tick
    \/ \E s \in Serial : Receive(s)
    \/ \E s \in Serial : JWTAuthMiddleware(s)
    \/ \E s \in Serial : Register(s)
    \/ \E s \in Serial : Auth(s)
    \/ \E s \in Serial : ProfileHandler(s)
    \/ \E s \in Serial : UpdateUser(s)
    \/ \E s \in Serial : Finish(s)
    \/ \E s \in Serial : Cancel(s)
    \/ \E i \in DOMAIN db : BlockUser(i)

Spec == Init /\ [][Next]_vars

\* The codec on its own: claims drawn from ClaimsDomain are signed under
\* jwtKey as NewAccessToken signs them, and the token is parsed as the
\* middleware parses it, at the time the clock then shows.
ClaimsDomain ==
    [Id : {0, 1, 7}, Login : {"", "alice"}, IsAdmin : BOOLEAN,
     ExpiresAt : {Hour, 2 * Hour, 2 * Hour + 1, 3 * Hour}]

InitCodec ==
    /\ now = 0
    /\ variant \in {"pair", "single"}
    /\ db = InitDb
    /\ minted = {}
    /\ req = [s \in Slots |-> Idle]
    /\ served = 0
    /\ \E c \in ClaimsDomain : codec = [CodecIdle EXCEPT !.pc = "claims", !.c = c]

\* jwt.NewWithClaims(jwt.SigningMethodHS256, claims).SignedString(jwtKey)
Encode ==
    /\ codec.pc = "claims"
    /\ codec' = [codec EXCEPT
                   !.pc = "encoded",
                   !.tok = SignedString(jwtKey, Claims(codec.c.Id, codec.c.Login,
                                                       codec.c.IsAdmin, codec.c.ExpiresAt))]
    /\ UNCHANGED <<now, variant, db, minted, req, served>>

\* jwt.ParseWithClaims(tokenString, &Claims{}, keyfunc)
Decode ==
    /\ codec.pc = "encoded"
    /\ codec' = [codec EXCEPT !.pc = "decoded", !.at = now,
                               !.out = ParseWithClaims(codec.tok, jwtKey, now)]
    /\ UNCHANGED <<now, variant, db, minted, req, served>>

NextCodec ==
    \/ Tick
    \/ Encode
    \/ Decode

SpecCodec == InitCodec /\ [][NextCodec]_vars

\* Two requests in flight at once.  alice and root have signed in at time 0
\* (in the token-pair version their refresh token is saved); clients then
\* send requests to the protected routes with no token or with a token they
\* were given, and the server interleaves the steps of the two requests.
SignedInDb ==
    [i \in DOMAIN InitDb |-> [InitDb[i] EXCEPT !.refresh = NewRefreshToken]]

SignedInMints ==
    {Mint("access", NewAccessToken(i, InitDb[i].login, InitDb[i].admin, 0),
          i, InitDb[i].login, InitDb[i].admin, 0) : i \in DOMAIN InitDb}

InitConc ==
    /\ now = 0
    /\ variant \in {"pair", "single"}
    /\ db = IF variant = "pair" THEN SignedInDb ELSE InitDb
    /\ minted = IF variant = "pair" THEN SignedInMints \cup {RefreshMint} ELSE SignedInMints
    /\ req = [s \in Slots |-> Idle]
    /\ served = 0
    /\ codec = CodecIdle

ReceiveProtected(s) ==
    /\ req[s].pc = "idle"
    /\ served < MaxServed
    /\ \E route \in {"profile", "update"} :
       \E method \in Methods(route), body \in Bodies(route),
          auth \in {<<>>} \cup {<<BearerPrefix>> \o x.tok : x \in minted} :
            req' = [req EXCEPT ![s] =
                      [Idle EXCEPT !.pc = "mw", !.route = route, !.method = method,
                                   !.auth = auth, !.body = body]]
    /\ served' = served + 1
    /\ UNCHANGED <<codec, now, variant, db, minted>>

NextConc ==
    \/ Tick
    \/ \E s \in Slots : ReceiveProtected(s)
    \/ \E s \in Slots : JWTAuthMiddleware(s)
    \/ \E s \in Slots : ProfileHandler(s)
    \/ \E s \in Slots : UpdateUser(s)
    \/ \E s \in Slots : Finish(s)

SpecConc == InitConc /\ [][NextConc]_vars

\* The sign-in handlers against the UserHandler interface alone: User.Auth
\* may return any value of its result type

\* Auth(u u.AuthData) (user u.TableUser, err error)
AuthReturnsPair(d) ==
    [user : {ZeroUser} \cup {UserOf(d, i) : i \in DOMAIN d}, err : {Nil, ErrInternal}]

\* Auth(u u.AuthData) (succsess, isAdmin bool, id int, err error)
AuthReturnsSingle(d) ==
    [ok : BOOLEAN, isAdmin : BOOLEAN, id : {0} \cup DOMAIN d,
     err : {Nil, ErrNoRows, ErrInternal}]

ReceiveSignin(s) ==
    /\ req[s].pc = "idle"
    /\ served < MaxServed
    /\ \E body \in SigninBodies :
          req' = [req EXCEPT ![s] =
                    [Idle EXCEPT !.pc = "handler", !.route = "signin",
                                 !.method = "POST", !.body = body]]
    /\ served' = served + 1
    /\ UNCHANGED <<codec, now, variant, db, minted>>

AuthAnyReturn(s) ==
    /\ req[s].pc = "handler" /\ req[s].route = "signin"
    /\ \E signErr \in {"none", "access", "refresh"} :
         IF variant = "pair"
           THEN \E au \in AuthReturnsPair(db) :
                \E sv \in StoreSaveRefreshToken(db, NewRefreshTokenResult(signErr),
                                                 au.user.ID) :
                   Handled(s, AuthPair(req[s], db, now, au, signErr, sv))
           ELSE \E au \in AuthReturnsSingle(db) :
                   Handled(s, AuthSingle(req[s], db, now, au, signErr))

NextAuth ==
    \/ \E s \in Serial : ReceiveSignin(s)
    \/ \E s \in Serial : AuthAnyReturn(s)
    \/ \E s \in Serial : Finish(s)

SpecAuth == Init /\ [][NextAuth]_vars

TypeOK ==
    /\ now \in Instants
    /\ variant \in {"pair", "single"}
    /\ served \in 0..MaxServed + 1
    /\ \A s \in Slots : req[s].pc \in {"idle", "mw", "handler", "done"}

----------------------------------------------------------------------------
\* Properties

\* the request of slot s went through the middleware
PastMw(s) == Protected(req[s].route) /\ req[s].pc \in {"handler", "done"}

\* request r carries token tok, bare or after "Bearer "
Presented(r, tok) == r.auth = tok \/ r.auth = <<BearerPrefix>> \o tok

InvalidTokenResponse ==
    [code |-> 401, ctype |-> "text/plain", body |-> [text |-> "Invalid token"]]

\* the middleware answered 401 "Invalid token" and nothing else happened
Rejected(s) ==
    /\ req[s].pc = "done"
    /\ req[s].resp = <<InvalidTokenResponse>>
    /\ req[s].nextCalls = 0
    /\ req[s].runs = 0
    /\ req[s].ctx = <<>>

\* the middleware called next once with the identity token x was issued for
AcceptedAs(s, x) ==
    /\ req[s].nextCalls = 1
    /\ Len(req[s].ctx) = 1
    /\ req[s].ctx[1].Id = x.id
    /\ req[s].ctx[1].Login = x.login
    /\ req[s].ctx[1].IsAdmin = x.admin
    /\ req[s].pc = "handler" => req[s].resp = <<>> /\ req[s].runs = 0
    /\ req[s].pc = "done" => req[s].runs = 1

AccessTokens == {x \in minted : x.kind = "access"}

ExpiredToken(r) ==
    \E x \in AccessTokens : Presented(r, x.tok) /\ r.mwAt > x.at + 2 * Hour

\* C1: a non-OPTIONS request with no Authorization header, with a malformed
\* token, or with a correctly signed but expired token gets the one response
\* 401 "Invalid token"; next is not called and no UserContext is attached
C1_UniformInvalidToken ==
    \A s \in Slots :
        ( /\ PastMw(s)
          /\ req[s].method # "OPTIONS"
          /\ \/ req[s].auth = <<>>
             \/ Presented(req[s], Garbage)
             \/ ExpiredToken(req[s]) )
        => Rejected(s)

C1_Witness ==
    \E s \in Slots :
        /\ PastMw(s) /\ req[s].method # "OPTIONS"
        /\ ExpiredToken(req[s])
        /\ Rejected(s)

\* C2: an access token made by NewAccessToken(id, login, admin), presented
\* unexpired as "Bearer <token>", makes the middleware call next with a
\* UserContext whose Id, Login and IsAdmin are that id, login and admin
C2_IdentityFromIssuedToken ==
    \A s \in Slots : \A x \in AccessTokens :
        ( /\ PastMw(s)
          /\ req[s].method # "OPTIONS"
          /\ req[s].auth = <<BearerPrefix>> \o x.tok
          /\ req[s].mwAt <= x.at + 2 * Hour )
        => AcceptedAs(s, x)

C2_Witness ==
    \E s \in Slots : \E x \in AccessTokens :
        /\ PastMw(s) /\ req[s].method # "OPTIONS"
        /\ req[s].auth = <<BearerPrefix>> \o x.tok
        /\ x.admin
        /\ req[s].pc = "done"
        /\ AcceptedAs(s, x)

\* the request carries a well-formed token whose signature was made under a
\* key other than jwtKey
ForeignSigned(r) ==
    \E tok \in Tokens(minted) :
        /\ Presented(r, tok)
        /\ Len(tok) = 3
        /\ tok[3].key # jwtKey

\* C3: a token signed with a key other than jwtKey is rejected with 401,
\* whatever its claims and expiry, and next does not run
C3_ForeignKeyRejected ==
    \A s \in Slots :
        (PastMw(s) /\ req[s].method # "OPTIONS" /\ ForeignSigned(req[s]))
        => Rejected(s)

C3_Witness ==
    \E s \in Slots :
        /\ PastMw(s) /\ req[s].method # "OPTIONS"
        /\ Presented(req[s], SignedString(OtherKey, Claims(2, "root", TRUE, 0)))
        /\ Rejected(s)

\* C4: an access token carries exp = issuance time + 2 hours; presented up
\* to 1 hour 59 minutes after issuance it is accepted with the identity it
\* was issued for; presented 2 hours and 1 second after issuance or later it
\* is rejected
C4_TwoHourExpiry ==
    /\ \A x \in AccessTokens : x.tok[2].json.exp = x.at + 2 * Hour
    /\ \A s \in Slots : \A x \in AccessTokens :
        (PastMw(s) /\ req[s].method # "OPTIONS" /\ Presented(req[s], x.tok))
        => /\ req[s].mwAt <= x.at + 2 * Hour - 60 => AcceptedAs(s, x)
           /\ req[s].mwAt >= x.at + 2 * Hour + 1 => Rejected(s)

C4_Witness ==
    \E s \in Slots : \E x \in AccessTokens :
        /\ PastMw(s) /\ req[s].method # "OPTIONS"
        /\ Presented(req[s], x.tok)
        /\ req[s].mwAt = x.at + 2 * Hour + 1
        /\ Rejected(s)

\* the token of request r parses as valid under jwtKey at the time the
\* middleware looked at it
TokenValid(r) == ParseWithClaims(TrimPrefix(r.auth, BearerPrefix), jwtKey, r.mwAt).valid

Wrote401InvalidToken(r) == \E i \in DOMAIN r.resp : r.resp[i] = InvalidTokenResponse

\* C5: every request that went through the middleware gets exactly one
\* response; next runs once when the request is OPTIONS or the token is
\* valid and never otherwise; a 401 of the middleware and a run of next
\* exclude each other
C5_ExactlyOneResponse ==
    \A s \in Slots :
        (Protected(req[s].route) /\ req[s].pc = "done")
        => /\ Len(req[s].resp) = 1
           /\ req[s].runs <= 1
           /\ req[s].runs = 1 <=> (req[s].method = "OPTIONS" \/ TokenValid(req[s]))
           /\ Wrote401InvalidToken(req[s]) => req[s].runs = 0 /\ req[s].nextCalls = 0

\* the part of C5 that is the middleware's own: it either writes its one 401
\* or calls next once, never both, and next runs at most once
MiddlewareOneOutcome ==
    \A s \in Slots :
        PastMw(s)
        => /\ req[s].nextCalls + (IF Wrote401InvalidToken(req[s]) THEN 1 ELSE 0) = 1
           /\ req[s].runs <= req[s].nextCalls
           /\ req[s].nextCalls = 1 <=> (req[s].method = "OPTIONS" \/ TokenValid(req[s]))
           /\ req[s].pc = "done" /\ req[s].nextCalls = 1 => req[s].runs = 1

WrongLoginResponse ==
    [code |-> 200, ctype |-> "application/json",
     body |-> [status |-> "Error", error |-> "wrong login or password"]]

\* the password of the sign-in request r is the password of no user
WrongPassword(r) ==
    /\ r.body.ok
    /\ \A i \in DOMAIN db : db[i].password # r.body.password

\* no body written for r carries a token
NoTokenInResponse(r) ==
    \A i \in DOMAIN r.resp :
        DOMAIN r.resp[i].body \cap {"token", "tokens", "access", "refresh"} = {}

NoSaveCall(r) == \A i \in DOMAIN r.calls : r.calls[i].op # "SaveRefreshToken"

\* C6: a sign-in with a wrong password creates no access token and no
\* refresh token, saves none, returns none, and (the store's Auth call having
\* answered) is told {status: "Error", error: "wrong login or password"}
C6_WrongPasswordNoToken ==
    \A s \in Slots :
        (req[s].route = "signin" /\ req[s].pc = "done" /\ WrongPassword(req[s]))
        => /\ req[s].minted = {}
           /\ NoSaveCall(req[s])
           /\ NoTokenInResponse(req[s])
           /\ Len(req[s].authRet) = 1
           /\ req[s].authRet[1].err # ErrInternal => req[s].resp = <<WrongLoginResponse>>

C6_Witness ==
    \E s \in Slots :
        /\ req[s].route = "signin" /\ req[s].pc = "done"
        /\ WrongPassword(req[s])
        /\ req[s].body.login = "alice"
        /\ req[s].resp = <<WrongLoginResponse>>

\* C7: every store call of Profile and UpdateUser names the Id of the
\* UserContext of the request, and every profile returned is that user's
C7_OwnProfileOnly ==
    \A s \in Slots :
        (req[s].route \in {"profile", "update"} /\ req[s].pc = "done")
        => /\ \A i \in DOMAIN req[s].calls :
                /\ Len(req[s].ctx) = 1
                /\ req[s].calls[i].op \in {"Get", "UpdateUser"}
                /\ req[s].calls[i].id = req[s].ctx[1].Id
           /\ \A i \in DOMAIN req[s].resp :
                "user" \in DOMAIN req[s].resp[i].body
                => req[s].resp[i].body.user.ID = req[s].ctx[1].Id

C7_Witness ==
    \E s \in Slots :
        /\ req[s].route = "update" /\ req[s].pc = "done"
        /\ Len(req[s].calls) >= 1
        /\ req[s].body.id # req[s].ctx[1].Id
        /\ req[s].calls[1] = [op |-> "UpdateUser", id |-> req[s].ctx[1].Id, login |-> ""]

\* C8: an OPTIONS request without a token reaches the downstream handler, no
\* 401 is written for it, and the middleware does not look at a token
C8_OptionsNo401 ==
    \A s \in Slots :
        ( /\ Protected(req[s].route) /\ req[s].pc = "done"
          /\ req[s].method = "OPTIONS" /\ req[s].auth = <<>> )
        => /\ req[s].runs = 1
           /\ ~req[s].parsed
           /\ \A i \in DOMAIN req[s].resp : req[s].resp[i].code # 401

\* the part of C8 that is the middleware's own
OptionsPassThrough ==
    \A s \in Slots :
        (PastMw(s) /\ req[s].method = "OPTIONS")
        => /\ req[s].nextCalls = 1
           /\ ~req[s].parsed
           /\ ~Wrote401InvalidToken(req[s])
           /\ req[s].ctx = <<>>

InternalErrors == {ErrInternal, ErrAccess, ErrRefresh, ErrSave, ErrToken}

\* C9: when a store or signing call of a handler fails with an internal
\* error, the only error text in the response is "Internal Server Error",
\* and no response carries the text of an error a call returned
C9_NoErrorTextLeak ==
    \A s \in Slots : \A i \in DOMAIN req[s].resp :
        "error" \in DOMAIN req[s].resp[i].body
        => /\ req[s].resp[i].body.error \notin req[s].errs
           /\ req[s].errs \cap InternalErrors # {}
                => req[s].resp[i].body.error = "Internal Server Error"

\* C10: every body written, by the middleware or a handler, is the envelope:
\* {status: "Error", error: <message>} for a failure, {status: "OK", ...}
\* for a success
C10_UniformEnvelope ==
    \A s \in Slots : \A i \in DOMAIN req[s].resp :
        LET b == req[s].resp[i].body IN
        /\ "status" \in DOMAIN b
        /\ b.status \in {"OK", "Error"}
        /\ b.status = "Error" <=> "error" \in DOMAIN b
        /\ req[s].resp[i].code # 200 => b.status = "Error"

\* C11: a token issued to a user before the user was blocked is accepted by
\* the middleware at any time up to its expiry, blocked or not, and the
\* UserContext attached always has IsBlocked = false
C11_BlockedUserTokenStillAccepted ==
    \A s \in Slots : \A x \in AccessTokens :
        ( /\ PastMw(s)
          /\ req[s].method # "OPTIONS"
          /\ Presented(req[s], x.tok)
          /\ req[s].mwAt <= x.at + 2 * Hour )
        => /\ AcceptedAs(s, x)
           /\ req[s].ctx[1].IsBlocked = FALSE

\* the user was blocked when the middleware accepted the token
C11_Witness ==
    \E s \in Slots : \E x \in AccessTokens :
        /\ PastMw(s) /\ req[s].method # "OPTIONS"
        /\ Presented(req[s], x.tok)
        /\ x.id \in req[s].blockedAtMw
        /\ AcceptedAs(s, x)
        /\ req[s].ctx[1].IsBlocked = FALSE

\* C12: once the context of a request is cancelled, nothing more is written
\* to its response and no further store call is made for it; in particular
\* the sign-in handler does not call SaveRefreshToken after the cancellation
C12_NoWorkAfterCancel ==
    [][\A s \in Slots :
          (req[s].cancelled /\ req'[s].pc # "idle")
          => /\ req'[s].resp = req[s].resp
             /\ req'[s].calls = req[s].calls
             /\ req'[s].nextCalls = req[s].nextCalls]_vars

\* the identity token x was created for
IdentityOf(x) == [Id |-> x.id, Login |-> x.login, IsAdmin |-> x.admin, IsBlocked |-> FALSE]

\* C13: with requests interleaved in any order, the UserContext a request
\* carries is the one decoded from the token of that same request, the store
\* calls and the profile returned are for that identity, and a slot whose
\* request has ended holds no identity
C13_IdentityPerRequest ==
    \A s \in Slots :
        /\ req[s].pc = "idle" => req[s].ctx = <<>>
        /\ req[s].ctx # <<>> =>
             /\ PastMw(s)
             /\ Len(req[s].ctx) = 1
             /\ \E x \in minted :
                   /\ req[s].auth = <<BearerPrefix>> \o x.tok
                   /\ req[s].ctx[1] = IdentityOf(x)
                   /\ \A i \in DOMAIN req[s].calls : req[s].calls[i].id = x.id
                   /\ \A i \in DOMAIN req[s].resp :
                         "user" \in DOMAIN req[s].resp[i].body
                         => req[s].resp[i].body.user.ID = x.id

\* two requests in flight at once under different identities, one of them
\* already served from the store
C13_Witness ==
    /\ req["r1"].ctx # <<>> /\ req["r2"].ctx # <<>>
    /\ req["r1"].ctx[1].Id # req["r2"].ctx[1].Id
    /\ req["r1"].pc = "done" /\ Len(req["r1"].calls) >= 1
    /\ req["r2"].pc = "handler"

\* C14: claims with any id, login and isAdmin whose expiresAt is in the
\* future, encoded under the signing key and decoded, come back unchanged:
\* id, login, isAdmin and expiresAt are all equal
C14_RoundTrip ==
    (codec.pc = "decoded" /\ codec.c.ExpiresAt > codec.at)
    => /\ codec.out.err = Nil
       /\ codec.out.valid
       /\ codec.out.claims = codec.c

C14_Witness ==
    /\ codec.pc = "decoded"
    /\ codec.c = [Id |-> 7, Login |-> "alice", IsAdmin |-> FALSE, ExpiresAt |-> 2 * Hour]
    /\ codec.at = 2 * Hour - 60
    /\ codec.out.claims = codec.c

\* the protected handler of slot s ran on a request without UserContext
RanWithoutContext(s) ==
    Protected(req[s].route) /\ req[s].runs = 1 /\ ~HasUserContext(req[s])

\* C15: a protected handler (Profile, UpdateUser) that runs on a request
\* without UserContext answers 401 "User context not found" and makes no
\* store call
C15_NoContextUnauthorized ==
    \A s \in Slots :
        RanWithoutContext(s)
        => /\ req[s].resp = <<HttpError("User context not found", StatusUnauthorized)>>
           /\ req[s].calls = <<>>

\* the claims a token carries about the user
BusinessClaims == {"id", "login", "isadmin"}

\* C16: a refresh token carries none of the claims id, login, isadmin; when
\* its signing fails NewRefreshToken returns the empty string, and the
\* sign-in then saves no refresh token and returns no token: every sign-in
\* response that carries tokens carries a signed, non-empty refresh token
C16_EmptyRefreshTokenIsFailure ==
    /\ \A x \in minted :
          x.kind = "refresh" => DOMAIN x.tok[2].json \cap BusinessClaims = {}
    /\ NewRefreshTokenResult("refresh") = <<>>
    /\ \A s \in Slots :
          (req[s].route = "signin" /\ req[s].runs = 1) =>
              /\ ErrRefresh \in req[s].errs
                   => /\ NoSaveCall(req[s])
                      /\ NoTokenInResponse(req[s])
                      /\ req[s].resp = <<InternalError(ErrRefresh)>>
                      /\ RefreshMint \notin req[s].minted
              /\ \A i \in DOMAIN req[s].resp :
                    "tokens" \in DOMAIN req[s].resp[i].body
                    => /\ req[s].resp[i].body.tokens.refresh = NewRefreshToken
                       /\ RefreshMint \in req[s].minted
              /\ \A i \in DOMAIN db :
                    db[i].refresh # <<>> => db[i].refresh = NewRefreshToken

C16_Witness ==
    \E s \in Slots :
        /\ req[s].route = "signin" /\ req[s].runs = 1
        /\ ErrRefresh \in req[s].errs
        /\ req[s].calls = <<Call("Auth", 0, "alice")>>
        /\ variant = "pair"

\* the sign-up of slot s has run
SignedUp(s) == req[s].route = "signup" /\ req[s].runs = 1

\* C17: Register never authenticates: whether it succeeds or fails it
\* creates no access token and no refresh token and does not call
\* SaveRefreshToken; its success response holds the status and the stored
\* profile (user.go) or the status and an echo of the auth data (the
\* single-token version), and nothing else
C17_RegisterIssuesNoToken ==
    \A s \in Slots :
        SignedUp(s) =>
            /\ req[s].minted = {}
            /\ NoSaveCall(req[s])
            /\ \A i \in DOMAIN req[s].calls : req[s].calls[i].op \in {"Add", "Get"}
            /\ NoTokenInResponse(req[s])
            /\ Len(req[s].resp) = 1
            /\ req[s].resp[1].body.status = "OK" =>
                 IF variant = "pair"
                   THEN /\ DOMAIN req[s].resp[1].body = {"status", "user"}
                        /\ req[s].resp[1].body.user.ID \in DOMAIN db
                        /\ req[s].resp[1].body.user
                             = UserOf(db, req[s].resp[1].body.user.ID)
                        /\ req[s].resp[1].body.user.Login = req[s].body.login
                   ELSE /\ DOMAIN req[s].resp[1].body = {"status", "authdata"}
                        /\ req[s].resp[1].body.authdata
                             = [login |-> req[s].body.login,
                                password |-> req[s].body.password]

C17_Witness ==
    \E s \in Slots :
        /\ SignedUp(s)
        /\ variant = "pair"
        /\ 3 \in DOMAIN db
        /\ req[s].resp = <<RenderJSON([status |-> "OK", user |-> UserOf(db, 3)])>>
        /\ req[s].body.login = "bob"

C17_WitnessEcho ==
    \E s \in Slots :
        /\ SignedUp(s)
        /\ variant = "single"
        /\ req[s].resp[1].body.status = "OK"
        /\ "authdata" \in DOMAIN req[s].resp[1].body

\* a GET request with the Authorization header auth
GetWith(auth) == [Idle EXCEPT !.method = "GET", !.route = "profile", !.auth = auth]

\* the request of slot s carried the access token x, unexpired, to the
\* middleware
CarriedValid(s, x) ==
    /\ Protected(req[s].route)
    /\ req[s].pc \in {"handler", "done"}
    /\ req[s].method # "OPTIONS"
    /\ req[s].mwAt <= x.at + 2 * Hour

\* C18: the "Bearer " prefix is stripped only if present: a valid token is
\* accepted with the prefix and without it, and both forms of the header
\* give the same UserContext
C18_BearerPrefixOptional ==
    \A x \in AccessTokens :
        /\ \A s \in Slots :
              /\ (CarriedValid(s, x) /\ req[s].auth = x.tok) => AcceptedAs(s, x)
              /\ (CarriedValid(s, x) /\ req[s].auth = <<BearerPrefix>> \o x.tok)
                    => AcceptedAs(s, x)
        /\ MwOutcome(GetWith(x.tok), now).ctx
             = MwOutcome(GetWith(<<BearerPrefix>> \o x.tok), now).ctx
        /\ MwOutcome(GetWith(x.tok), now).next
             = MwOutcome(GetWith(<<BearerPrefix>> \o x.tok), now).next

\* a token without the prefix was accepted and the profile served
C18_Witness ==
    \E s \in Slots : \E x \in AccessTokens :
        /\ CarriedValid(s, x)
        /\ req[s].auth = x.tok
        /\ AcceptedAs(s, x)
        /\ req[s].pc = "done"
        /\ req[s].resp = <<RenderJSON([status |-> "OK", user |-> UserOf(db, x.id)])>>

\* the handler of slot s ran on a body that does not decode
RanOnBadBody(s) ==
    /\ req[s].route \in {"signup", "signin", "update"}
    /\ req[s].runs = 1
    /\ ~req[s].body.ok

C19_WitnessSignin ==
    \E s \in Slots : RanOnBadBody(s) /\ req[s].route = "signin" /\ req[s].pc = "done"

\* C20: every UserContext the middleware attaches has the Id, Login and
\* IsAdmin some earlier NewAccessToken call was given; a token made by
\* NewRefreshToken, presented as a bearer token, is refused and gives no
\* identity
C20_IdentityOnlyFromAccessToken ==
    \A s \in Slots :
        /\ req[s].ctx # <<>>
             => \E x \in AccessTokens :
                   /\ req[s].ctx[1].Id = x.id
                   /\ req[s].ctx[1].Login = x.login
                   /\ req[s].ctx[1].IsAdmin = x.admin
        /\ ( /\ Protected(req[s].route)
             /\ req[s].pc \in {"handler", "done"}
             /\ req[s].method # "OPTIONS"
             /\ Presented(req[s], NewRefreshToken) )
             => Rejected(s)

\* the sign-in of slot s created an access token or answered with a token
TokenIssued(s) ==
    \/ \E x \in req[s].minted : x.kind = "access"
    \/ ~NoTokenInResponse(req[s])

\* the value User.Auth returned to the sign-in of slot s confirms the
\* credentials: no error and a user (user.go), no error and success = true
\* (the single-token version)
StoreConfirmed(s) ==
    /\ Len(req[s].authRet) = 1
    /\ req[s].authRet[1].err = Nil
    /\ IF variant = "pair" THEN req[s].authRet[1].user.ID # 0
                           ELSE req[s].authRet[1].ok

\* C21: in both versions of the sign-in, whatever User.Auth returns, an
\* access token is created or returned only if the store confirmed the
\* credentials
C21_TokenOnlyIfStoreConfirmed ==
    \A s \in Slots :
        (req[s].route = "signin" /\ req[s].runs = 1 /\ TokenIssued(s))
        => StoreConfirmed(s)

\* the same of user.go alone
PairTokenOnlyIfStoreConfirmed == variant = "pair" => C21_TokenOnlyIfStoreConfirmed

\* C22: UpdateUser writes exactly one response body for a request, on
\* every path, the one where User.UpdateUser returns an error and n = 0
\* included
C22_UpdateUserOneResponse ==
    \A s \in Slots :
        (req[s].route = "update" /\ req[s].runs = 1) => Len(req[s].resp) = 1

\* the sign-in of user.go in slot s has run
PairSignedIn(s) == variant = "pair" /\ req[s].route = "signin" /\ req[s].runs = 1

\* the access token the sign-in of slot s created for the user the store
\* authenticated
AccessMintOf(s) ==
    {x \in req[s].minted : x.kind = "access" /\ x.id = req[s].authRet[1].user.ID}

\* C23: the sign-in of user.go checks the credentials, creates the access
\* token, creates the refresh token, calls SaveRefreshToken and answers, in
\* this order; the pair of tokens is returned only after SaveRefreshToken
\* succeeded, the refresh token saved is the one returned and is saved under
\* the id of the authenticated user, and when SaveRefreshToken fails no token
\* is returned
C23_SignInOrder ==
    \A s \in Slots :
        PairSignedIn(s) =>
            \* the store calls, in order
            /\ Len(req[s].calls) <= 2
            /\ Len(req[s].calls) >= 1 => req[s].calls[1].op = "Auth"
            /\ Len(req[s].calls) = 2 => req[s].calls[2].op = "SaveRefreshToken"
            \* a token is created only after the credential check passed
            /\ req[s].minted # {} =>
                 /\ Len(req[s].authRet) = 1
                 /\ req[s].authRet[1].err = Nil
                 /\ req[s].authRet[1].user.ID # 0
                 /\ AccessMintOf(s) # {}
            \* the refresh token only after the access token
            /\ RefreshMint \in req[s].minted => AccessMintOf(s) # {}
            \* SaveRefreshToken only after both, under the authenticated id
            /\ ~NoSaveCall(req[s]) =>
                 /\ RefreshMint \in req[s].minted
                 /\ req[s].calls[2].id = req[s].authRet[1].user.ID
            \* the response last: tokens only after a successful save
            /\ Len(req[s].resp) = 1
            /\ ~NoTokenInResponse(req[s]) =>
                 /\ ~NoSaveCall(req[s])
                 /\ req[s].errs = {}
                 /\ req[s].resp[1].body.tokens.refresh
                      = db[req[s].authRet[1].user.ID].refresh
                 /\ req[s].resp[1].body.tokens.refresh = NewRefreshToken
                 /\ \E x \in AccessMintOf(s) : req[s].resp[1].body.tokens.access = x.tok
            \* a failed save: no token
            /\ (~NoSaveCall(req[s]) /\ req[s].errs # {}) =>
                 /\ NoTokenInResponse(req[s])
                 /\ req[s].resp = <<InternalError(ErrSave)>>

\* alice signed in and her refresh token is in her row
C23_Witness ==
    \E s \in Slots :
        /\ PairSignedIn(s)
        /\ ~NoTokenInResponse(req[s])
        /\ req[s].calls = <<Call("Auth", 0, "alice"), Call("SaveRefreshToken", 1, "")>>
        /\ db[1].refresh = req[s].resp[1].body.tokens.refresh

\* SaveRefreshToken failed for alice
C23_WitnessSaveFailed ==
    \E s \in Slots :
        /\ PairSignedIn(s)
        /\ req[s].calls = <<Call("Auth", 0, "alice"), Call("SaveRefreshToken", 1, "")>>
        /\ req[s].errs # {}
        /\ db[1].refresh = <<>>

\* the token string of request r as parsed under jwtKey at the time the
\* middleware saw the request
ParsedAtMw(r) == ParseWithClaims(TrimPrefix(r.auth, BearerPrefix), jwtKey, r.mwAt)

\* the request of slot s has passed the middleware
DecidedByMw(s) == Protected(req[s].route) /\ req[s].pc \in {"handler", "done"}

\* C24: whether the middleware accepts a request, and the identity it
\* attaches, are given by the method, the Authorization header, the signing
\* key and the time alone, whatever the store holds and whatever requests
\* came before; and a token refused as expired at one time is refused at
\* every later time
C24_DecisionFromRequestAndClock ==
    /\ \A s \in Slots :
          DecidedByMw(s) =>
              /\ req[s].nextCalls = 1
                   <=> \/ req[s].method = "OPTIONS"
                       \/ ParsedAtMw(req[s]).err = Nil /\ ParsedAtMw(req[s]).valid
              /\ req[s].nextCalls = 0 => Rejected(s)
              /\ (req[s].nextCalls = 1 /\ req[s].method # "OPTIONS")
                   => req[s].ctx = <<UserContext(ParsedAtMw(req[s]).claims)>>
              /\ (req[s].nextCalls = 1 /\ req[s].method = "OPTIONS")
                   => req[s].ctx = <<>>
    /\ \A tok \in Tokens(minted) :
          LET refused == {t \in Instants :
                            ParseWithClaims(tok, jwtKey, t).err = "token is expired"}
              accepted == {t \in Instants : MwOutcome(GetWith(tok), t).next}
          IN  \A t1 \in refused : \A t2 \in accepted : t2 < t1

\* alice's token is accepted after her row in the store was changed
C24_Witness ==
    \E s \in Slots :
        /\ DecidedByMw(s)
        /\ req[s].route = "profile" /\ req[s].method = "GET"
        /\ req[s].nextCalls = 1
        /\ req[s].ctx = <<[Id |-> 1, Login |-> "alice", IsAdmin |-> FALSE,
                           IsBlocked |-> FALSE]>>
        /\ db[1].username = "neo"

\* a token was refused as expired
C24_WitnessExpired ==
    \E s \in Slots :
        /\ DecidedByMw(s)
        /\ req[s].nextCalls = 0
        /\ ParsedAtMw(req[s]).err = "token is expired"

\* the refresh tokens the store holds
SavedRefreshTokens == {db[i].refresh : i \in {j \in DOMAIN db : db[j].refresh # <<>>}}

\* the refresh tokens returned to the clients in flight
ReturnedRefreshTokens ==
    UNION {{req[s].resp[i].body.tokens.refresh :
               i \in {j \in DOMAIN req[s].resp : "tokens" \in DOMAIN req[s].resp[j].body}} :
           s \in Slots}

\* C25: NewRefreshToken returns the same string whoever signs in and
\* whenever: the refresh tokens saved for different users, and those
\* returned, are all equal, and the token has no expiry
C25_RefreshTokenConstant ==
    /\ Cardinality(SavedRefreshTokens \cup ReturnedRefreshTokens) <= 1
    /\ \A tok \in SavedRefreshTokens \cup ReturnedRefreshTokens :
          /\ tok = SignedString(jwtKey, EmptyClaims)
          /\ "exp" \notin DOMAIN tok[2].json
          /\ \A t \in Instants : ParseWithClaims(tok, jwtKey, t).valid

\* alice and root signed in at different times and the same refresh token
\* is saved for both
C25_Witness ==
    /\ db[1].refresh # <<>>
    /\ db[2].refresh = db[1].refresh
    /\ \E x, y \in AccessTokens : x.id = 1 /\ y.id = 2 /\ x.at # y.at

====
